---------------------------- MODULE Spec2Model ----------------------------
(***************************************************************************)
(* Model of django_creditcard/fields.py: CreditCardField,                  *)
(* ExpiryDateField and VerificationValueField.                             *)
(*                                                                         *)
(* A Python string is a sequence of one-character strings; None is a      *)
(* separate value.  A call's outcome is either a returned value or the     *)
(* exception that leaves the call (its class and, for a ValidationError,   *)
(* the error_messages key it was built from).                              *)
(***************************************************************************)
EXTENDS Integers, Sequences, FiniteSets, TLC

VARIABLES
    pc,        \* "start": field constructed, "done": called, "redone": called again on the result
    op,        \* the operation the harness calls
    required,  \* Field.required of the constructed field
    arg,       \* the call's argument
    ret,       \* the outcome of the last call
    prev,      \* the outcome of the call before the last one
    ctorToday, \* date.today() as read by ExpiryDateField.__init__
    today,     \* the wall clock's current date
    ticks      \* days elapsed since construction

vars == <<pc, op, required, arg, ret, prev, ctorToday, today, ticks>>

----------------------------------------------------------------------------
(* Python values *)

None == [none |-> TRUE]
Str(s) == [none |-> FALSE, s |-> s]
Date(y, m, d) == [none |-> FALSE, year |-> y, month |-> m, day |-> d]

Ok(v) == [kind |-> "ok", value |-> v]
Raise(e, k) == [kind |-> "raise", exc |-> e, key |-> k]
NoCall == [kind |-> "none"]

\* bool(value) of a str-or-None value
Truthy(v) == ~v.none /\ Len(v.s) > 0

AsciiDigits == <<"0", "1", "2", "3", "4", "5", "6", "7", "8", "9">>
IsAsciiDigit(c) == \E i \in 1..10 : AsciiDigits[i] = c
\* a decimal digit outside ASCII (ARABIC-INDIC DIGIT THREE): \d and int() take it, [0-9] does not
UnicodeThree == "u0663"
IsUnicodeDigit(c) == IsAsciiDigit(c) \/ c = UnicodeThree
DigitValue(c) == IF c = UnicodeThree THEN 3 ELSE (CHOOSE i \in 1..10 : AsciiDigits[i] = c) - 1

RECURSIVE Replace(_, _)
\* str.replace(old, ''): every occurrence of the character removed
Replace(s, old) ==
    IF s = <<>> THEN <<>>
    ELSE IF Head(s) = old THEN Replace(Tail(s), old)
    ELSE <<Head(s)>> \o Replace(Tail(s), old)

RECURSIVE SumSeq(_)
SumSeq(xs) == IF xs = <<>> THEN 0 ELSE Head(xs) + SumSeq(Tail(xs))

RECURSIVE SliceBack2(_, _)
\* xs[start::-2] for a 1-based start position: xs[start], xs[start-2], ... down to the front
SliceBack2(xs, start) ==
    IF start < 1 THEN <<>> ELSE <<xs[start]>> \o SliceBack2(xs, start - 2)

----------------------------------------------------------------------------
(* CreditCardField *)

\* sum(divmod(d * 2, 10))
SumDivmod(d) == ((d * 2) \div 10) + ((d * 2) % 10)

\* is_luhn_valid with the two slices exchanged: the rightmost digit is doubled
is_luhn_valid_swapped(cc) ==
    LET num == [i \in 1..Len(cc) |-> DigitValue(cc[i])]
        dbl == SliceBack2(num, Len(num))
    IN  SumSeq(SliceBack2(num, Len(num) - 1) \o [i \in 1..Len(dbl) |-> SumDivmod(dbl[i])]) % 10 = 0

\* not sum(num[::-2] + [sum(divmod(d * 2, 10)) for d in num[-2::-2]]) % 10
is_luhn_valid(cc) ==
    LET num == [i \in 1..Len(cc) |-> DigitValue(cc[i])]
        dbl == SliceBack2(num, Len(num) - 1)
    IN  SumSeq(SliceBack2(num, Len(num)) \o [i \in 1..Len(dbl) |-> SumDivmod(dbl[i])]) % 10 = 0

\* num = [int(ii) for ii in cc] raises ValueError on a character that is no decimal digit
LuhnRaises(cc) == \E i \in 1..Len(cc) : ~IsUnicodeDigit(cc[i])

StartsWith(s, p) == Len(s) >= Len(p) /\ SubSeq(s, 1, Len(p)) = p
\* [0-9] at every position i..j
DigitsAt(s, i, j) == \A k \in i..j : IsAsciiDigit(s[k])
\* \d at every position i..j
UnicodeDigitsAt(s, i, j) == \A k \in i..j : IsUnicodeDigit(s[k])
CharIn(c, lo, hi) == IsAsciiDigit(c) /\ DigitValue(c) >= lo /\ DigitValue(c) <= hi

\* 4[0-9]{12}(?:[0-9]{3})?
ReVisa(s) == Len(s) \in {13, 16} /\ s[1] = "4" /\ DigitsAt(s, 2, Len(s))
\* 5[1-5][0-9]{14}
ReMastercard(s) == Len(s) = 16 /\ s[1] = "5" /\ CharIn(s[2], 1, 5) /\ DigitsAt(s, 3, 16)
\* 6(?:011|5[0-9][0-9])[0-9]{12}
ReDiscover(s) ==
    /\ Len(s) = 16
    /\ s[1] = "6"
    /\ SubSeq(s, 2, 4) = <<"0", "1", "1">> \/ (s[2] = "5" /\ DigitsAt(s, 3, 4))
    /\ DigitsAt(s, 5, 16)
\* 3[47][0-9]{13}
ReAmex(s) == Len(s) = 15 /\ s[1] = "3" /\ s[2] \in {"4", "7"} /\ DigitsAt(s, 3, 15)
\* 3(?:0[0-5]|[68][0-9])[0-9]{11}
ReDiners(s) ==
    /\ Len(s) = 14
    /\ s[1] = "3"
    /\ (s[2] = "0" /\ CharIn(s[3], 0, 5)) \/ (s[2] \in {"6", "8"} /\ IsAsciiDigit(s[3]))
    /\ DigitsAt(s, 4, 14)
\* (?:2131|1800|35\\d{3})\d{11}: in the raw string \\ is a literal backslash, followed by ddd
ReLegacy(s) ==
    \/ /\ Len(s) = 15
       /\ StartsWith(s, <<"2", "1", "3", "1">>) \/ StartsWith(s, <<"1", "8", "0", "0">>)
       /\ UnicodeDigitsAt(s, 5, 15)
    \/ /\ Len(s) = 17
       /\ StartsWith(s, <<"3", "5", "\\", "d", "d", "d">>)
       /\ UnicodeDigitsAt(s, 7, 17)

ReAlternatives(s) ==
    ReVisa(s) \/ ReMastercard(s) \/ ReDiscover(s) \/ ReAmex(s) \/ ReDiners(s) \/ ReLegacy(s)

\* re.match(CREDIT_CARD_RE, value): ^ at the start; $ at the end or before one final newline
CREDIT_CARD_RE(s) ==
    \/ ReAlternatives(s)
    \/ Len(s) > 0 /\ s[Len(s)] = "\n" /\ ReAlternatives(SubSeq(s, 1, Len(s) - 1))

\* raise form.ValidationError(...): the name form is not bound (the module imports forms)
RaiseFormValidationError(key) == Raise("NameError", "")

\* value and value.replace(' ', '').replace('-', '')
CardNormalize(value) ==
    IF Truthy(value) THEN Str(Replace(Replace(value.s, " "), "-")) ELSE value

\* clean with the required test made on the raw input, before normalization
CreditCardField_clean_rawrequired(value, req) ==
    LET v == CardNormalize(value)
    IN  IF req /\ ~Truthy(value) THEN RaiseFormValidationError("required")
        ELSE IF Truthy(v) /\ ~CREDIT_CARD_RE(v.s) THEN RaiseFormValidationError("invalid")
        ELSE IF Truthy(v) /\ LuhnRaises(v.s) THEN Raise("ValueError", "")
        ELSE IF Truthy(v) /\ ~is_luhn_valid(v.s) THEN RaiseFormValidationError("invalid")
        ELSE Ok(v)

CreditCardField_clean(value, req) ==
    LET v == CardNormalize(value)
    IN  IF req /\ ~Truthy(v) THEN RaiseFormValidationError("required")
        ELSE IF Truthy(v) /\ ~CREDIT_CARD_RE(v.s) THEN RaiseFormValidationError("invalid")
        ELSE IF Truthy(v) /\ LuhnRaises(v.s) THEN Raise("ValueError", "")
        ELSE IF Truthy(v) /\ ~is_luhn_valid(v.s) THEN RaiseFormValidationError("invalid")
        ELSE Ok(v)

----------------------------------------------------------------------------
(* Card-number inputs: issuer prefix, filler digits, check digit, separators *)

\* lengths from the shortest card number the pattern takes (13) to MaxCardLen
MaxCardLen == 17
CardLengths == 13..MaxCardLen

CardPrefixes ==
    { <<"4">>, <<"5", "0">>, <<"5", "1">>, <<"5", "5">>, <<"5", "6">>,
      <<"6", "0", "1", "1">>, <<"6", "5">>, <<"6", "4">>,
      <<"3", "4">>, <<"3", "7">>,
      <<"3", "0", "0">>, <<"3", "0", "5">>, <<"3", "0", "6">>, <<"3", "6">>, <<"3", "8">>,
      <<"2", "1", "3", "1">>, <<"1", "8", "0", "0">>, <<"3", "5">>,
      <<"3", "5", "\\", "d", "d", "d">>, <<"2", "1", "3", "1", UnicodeThree>> }

CardDecorations == {"plain", "spaces", "hyphens", "newline", "letter", "tab"}

\* prefix, then filler up to length n - 1, then the last digit
CardNumber(prefix, filler, n, last) ==
    [i \in 1..n |-> IF i <= Len(prefix) THEN prefix[i] ELSE IF i = n THEN last ELSE filler]

RECURSIVE Grouped(_, _)
\* s in groups of four separated by sep, with one leading sep
Grouped(s, sep) ==
    IF Len(s) <= 4 THEN <<sep>> \o s
    ELSE <<sep>> \o SubSeq(s, 1, 4) \o Grouped(SubSeq(s, 5, Len(s)), sep)

Decorate(s, dec) ==
    CASE dec = "plain"   -> s
      [] dec = "spaces"  -> Grouped(s, " ")
      [] dec = "hyphens" -> Grouped(s, "-")
      [] dec = "newline" -> s \o <<"\n">>
      [] dec = "letter"  -> s \o <<"a">>
      [] dec = "tab"     -> <<"\t">> \o s

CardBlankInputs ==
    { None, Str(<<>>), Str(<<" ">>), Str(<<"-", " ", "-">>), Str(<<"\n">>), Str(<<"a", "b", "c">>) }

CardInputs ==
    CardBlankInputs \cup
    { Str(Decorate(CardNumber(p, f, n, AsciiDigits[c]), dec)) :
        p \in CardPrefixes, f \in {"0", "1", "7"}, n \in CardLengths,
        c \in 1..10, dec \in CardDecorations }

NoDate == Date(0, 0, 0)

InitCard ==
    /\ pc = "start"
    /\ op = "CreditCardField.clean"
    /\ required \in BOOLEAN
    /\ arg \in CardInputs
    /\ ret = NoCall
    /\ prev = NoCall
    /\ ctorToday = NoDate
    /\ today = NoDate
    /\ ticks = 0

\* CreditCardField(required=...).clean(arg)
CardClean ==
    /\ pc = "start"
    /\ op = "CreditCardField.clean"
    /\ ret' = CreditCardField_clean(arg, required)
    /\ pc' = "done"
    /\ UNCHANGED <<op, required, arg, prev, ctorToday, today, ticks>>

\* the same field's clean called on the value the first call returned
CardCleanAgain ==
    /\ pc = "done"
    /\ op = "CreditCardField.clean"
    /\ ret.kind = "ok"
    /\ prev' = ret
    /\ ret' = CreditCardField_clean(ret.value, required)
    /\ pc' = "redone"
    /\ UNCHANGED <<op, required, arg, ctorToday, today, ticks>>

NextCard == CardClean \/ CardCleanAgain

SpecCard == InitCard /\ [][NextCard]_vars

----------------------------------------------------------------------------
(* VerificationValueField *)

\* re.match(VERIFICATION_VALUE_RE, value) for ^([0-9]{3,4})$
VerificationDigits(s) == Len(s) \in {3, 4} /\ DigitsAt(s, 1, Len(s))
VERIFICATION_VALUE_RE(s) ==
    \/ VerificationDigits(s)
    \/ Len(s) > 0 /\ s[Len(s)] = "\n" /\ VerificationDigits(SubSeq(s, 1, Len(s) - 1))

\* value and value.replace(' ', '')
VerificationNormalize(value) == IF Truthy(value) THEN Str(Replace(value.s, " ")) ELSE value

VerificationValueField_clean(value, req) ==
    LET v == VerificationNormalize(value)
    IN  IF ~Truthy(v) /\ req THEN RaiseFormValidationError("required")
        ELSE IF Truthy(v) /\ ~VERIFICATION_VALUE_RE(v.s) THEN RaiseFormValidationError("invalid")
        ELSE Ok(v)

MaxCvvLen == 5
CvvAlphabet == {"0", "9", " ", "x", "\n"}
CvvInputs ==
    {None} \cup { Str(s) : s \in UNION { [1..n -> CvvAlphabet] : n \in 0..MaxCvvLen } }

InitCvv ==
    /\ pc = "start"
    /\ op = "VerificationValueField.clean"
    /\ required \in BOOLEAN
    /\ arg \in CvvInputs
    /\ ret = NoCall
    /\ prev = NoCall
    /\ ctorToday = NoDate
    /\ today = NoDate
    /\ ticks = 0

\* VerificationValueField(required=...).clean(arg)
CvvClean ==
    /\ pc = "start"
    /\ op = "VerificationValueField.clean"
    /\ ret' = VerificationValueField_clean(arg, required)
    /\ pc' = "done"
    /\ UNCHANGED <<op, required, arg, prev, ctorToday, today, ticks>>

NextCvv == CvvClean

SpecCvv == InitCvv /\ [][NextCvv]_vars

\* both character fields, for what the two clean methods have in common
InitFields == InitCard \/ InitCvv
NextFields == CardClean \/ CardCleanAgain \/ CvvClean
SpecFields == InitFields /\ [][NextFields]_vars

----------------------------------------------------------------------------
(* is_luhn_valid on its own *)

MaxLuhnLen == 3
AsciiDigitSet == { AsciiDigits[i] : i \in 1..10 }
\* every digit string up to MaxLuhnLen, and the digit-only card numbers
LuhnInputs ==
    { Str(s) : s \in UNION { [1..n -> AsciiDigitSet] : n \in 1..MaxLuhnLen } }
    \cup { Str(CardNumber(p, f, n, AsciiDigits[c])) :
             p \in { q \in CardPrefixes : DigitsAt(q, 1, Len(q)) }, f \in {"0", "1", "7"},
             n \in CardLengths, c \in 1..10 }

InitLuhn ==
    /\ pc = "start"
    /\ op = "is_luhn_valid"
    /\ required = TRUE
    /\ arg \in LuhnInputs
    /\ ret = NoCall
    /\ prev = NoCall
    /\ ctorToday = NoDate
    /\ today = NoDate
    /\ ticks = 0

\* is_luhn_valid(arg)
LuhnCall ==
    /\ pc = "start"
    /\ op = "is_luhn_valid"
    /\ ret' = IF LuhnRaises(arg.s) THEN Raise("ValueError", "") ELSE Ok(is_luhn_valid(arg.s))
    /\ pc' = "done"
    /\ UNCHANGED <<op, required, arg, prev, ctorToday, today, ticks>>

NextLuhn == LuhnCall

SpecLuhn == InitLuhn /\ [][NextLuhn]_vars

----------------------------------------------------------------------------
(* ExpiryDateField *)

\* datetime.MINYEAR, datetime.MAXYEAR
MINYEAR == 1
MAXYEAR == 9999

Whitespace == {" ", "\n", "\t"}

RECURSIVE LStrip(_)
LStrip(s) == IF s # <<>> /\ Head(s) \in Whitespace THEN LStrip(Tail(s)) ELSE s
RECURSIVE RStrip(_)
RStrip(s) ==
    IF s # <<>> /\ s[Len(s)] \in Whitespace THEN RStrip(SubSeq(s, 1, Len(s) - 1)) ELSE s

RECURSIVE DecimalValue(_, _)
\* the digits of s read in base 10 after acc, underscores skipped
DecimalValue(s, acc) ==
    IF s = <<>> THEN acc
    ELSE IF Head(s) = "_" THEN DecimalValue(Tail(s), acc)
    ELSE DecimalValue(Tail(s), acc * 10 + DigitValue(Head(s)))

\* digits, with single underscores allowed between two digits
IntLiteralBody(s) ==
    /\ Len(s) > 0
    /\ \A i \in 1..Len(s) : IsUnicodeDigit(s[i]) \/ s[i] = "_"
    /\ s[1] # "_"
    /\ s[Len(s)] # "_"
    /\ \A i \in 1..(Len(s) - 1) : ~(s[i] = "_" /\ s[i + 1] = "_")

\* int(x) for a str or None: [exc |-> "" and n |-> the integer] or the exception raised
int(x) ==
    IF x.none THEN [exc |-> "TypeError", n |-> 0]
    ELSE LET s    == RStrip(LStrip(x.s))
             sign == IF s # <<>> /\ Head(s) \in {"+", "-"} THEN Head(s) ELSE ""
             body == IF sign = "" THEN s ELSE Tail(s)
         IN  IF ~IntLiteralBody(body) THEN [exc |-> "ValueError", n |-> 0]
             ELSE [exc |-> "", n |-> IF sign = "-" THEN 0 - DecimalValue(body, 0)
                                     ELSE DecimalValue(body, 0)]

\* calendar.isleap without the century rule
isleap_julian(year) == year % 4 = 0
\* calendar.isleap
isleap(year) == year % 4 = 0 /\ (year % 100 # 0 \/ year % 400 = 0)

\* calendar.mdays[1:]
mdays == <<31, 28, 31, 30, 31, 30, 31, 31, 30, 31, 30, 31>>

\* calendar.monthrange(year, month)[1]: weekday() maps a year outside MINYEAR..MAXYEAR
\* into 2000..2399, so only the month can be refused
monthrange(year, month) ==
    IF ~(1 <= month /\ month <= 12) THEN [exc |-> "IllegalMonthError", ndays |-> 0]
    ELSE [exc |-> "", ndays |-> mdays[month] + (IF month = 2 /\ isleap(year) THEN 1 ELSE 0)]

\* datetime.date(year, month, day) for a month and day monthrange has accepted
date(year, month, day) ==
    IF year < MINYEAR \/ year > MAXYEAR THEN Raise("ValueError", "")
    ELSE Ok(Date(year, month, day))

\* ExpiryDateField.compress(data_list): data_list is <<>> or <<month, year>>
compress(data_list) ==
    IF data_list = <<>> THEN Ok(None)
    ELSE LET month == int(data_list[1])
             year  == int(data_list[2])
             mr    == monthrange(year.n, month.n)
         IN  IF month.exc # "" THEN Raise("ValidationError", "invalid_month")
             ELSE IF year.exc # "" THEN Raise("ValidationError", "invalid_year")
             ELSE IF mr.exc = "IllegalMonthError" THEN Raise("ValidationError", "invalid_month")
             ELSE IF mr.exc = "ValueError" THEN Raise("ValidationError", "invalid_year")
             ELSE date(year.n, month.n, mr.ndays)

RECURSIVE Decimal(_)
\* str(n) for n >= 0
Decimal(n) == IF n < 10 THEN <<AsciiDigits[n + 1]>> ELSE Decimal(n \div 10) \o <<AsciiDigits[(n % 10) + 1]>>

\* month inputs: 0..MaxMonthInput in decimal, the zero-padded forms, and strings int() treats specially
MaxMonthInput == 13
MonthInputs ==
    { Str(Decimal(n)) : n \in 0..MaxMonthInput }
    \cup { Str(<<"0">> \o Decimal(n)) : n \in 0..9 }
    \cup { None, Str(<<>>), Str(<<"a">>), Str(<<" ", "2", " ">>), Str(<<"+", "2">>),
           Str(<<"-", "1">>), Str(<<"1", ".", "5">>), Str(<<"1", "_", "2">>), Str(<<"_", "2">>),
           Str(<<"2", "\n">>), Str(<<"9", "9">>) }

\* year inputs: every digit string over YearAlphabet up to MaxYearLen, and some others
MaxYearLen == 4
YearAlphabet == {"0", "1", "2", "4"}
YearInputs ==
    { Str(s) : s \in UNION { [1..n -> YearAlphabet] : n \in 1..MaxYearLen } }
    \cup { None, Str(<<>>), Str(<<"a", "b", "c">>), Str(<<"1", "9", "0", "0">>),
           Str(<<"2", "0", "2", "3">>), Str(<<"9", "9", "9", "9">>),
           Str(<<"1", "0", "0", "0", "0">>), Str(<<"-", "4">>), Str(<<"+", "2", "0", "2", "4">>),
           Str(<<" ", "2", "0", "2", "4", " ">>), Str(<<"2", "_", "0", "2", "4">>),
           Str(<<"2", "0", "2", "4", ".", "0">>) }

CompressInputs == {<<>>} \cup (MonthInputs \X YearInputs)

InitCompress ==
    /\ pc = "start"
    /\ op = "ExpiryDateField.compress"
    /\ required = FALSE
    /\ arg \in CompressInputs
    /\ ret = NoCall
    /\ prev = NoCall
    /\ ctorToday = NoDate
    /\ today = NoDate
    /\ ticks = 0

\* ExpiryDateField().compress(arg)
Compress ==
    /\ pc = "start"
    /\ op = "ExpiryDateField.compress"
    /\ ret' = compress(arg)
    /\ pc' = "done"
    /\ UNCHANGED <<op, required, arg, prev, ctorToday, today, ticks>>

NextCompress == Compress

SpecCompress == InitCompress /\ [][NextCompress]_vars

----------------------------------------------------------------------------
(* ExpiryDateField.clean, with the clock running between construction and the call *)

\* a > b on datetime.date values
DateGT(a, b) ==
    \/ a.year > b.year
    \/ a.year = b.year /\ a.month > b.month
    \/ a.year = b.year /\ a.month = b.month /\ a.day > b.day

\* the day after d
NextDay(d) ==
    IF d.day < monthrange(d.year, d.month).ndays THEN Date(d.year, d.month, d.day + 1)
    ELSE IF d.month < 12 THEN Date(d.year, d.month + 1, 1)
    ELSE Date(d.year + 1, 1, 1)

\* Field.empty_values restricted to str and None
IsEmptyValue(v) == v.none \/ v.s = <<>>

\* choices of fields[0]: range(1, 13)
MonthChoices == 1..12
\* choices of fields[1]: range(today.year, today.year + 15), today read by __init__
YearChoices(ctor) == ctor.year..(ctor.year + 14)

\* ChoiceField.clean of a sub-field (MultiValueField clears the sub-fields' required flag):
\* to_python gives '' for an empty value; a non-empty value must equal str(k) of a choice k
ChoiceField_clean(v, choices) ==
    IF IsEmptyValue(v) THEN Ok(Str(<<>>))
    ELSE IF \E k \in choices : v.s = Decimal(k) THEN Ok(v)
    ELSE Raise("ValidationError", "invalid_choice")

\* MultiValueField.clean(value): value is <<>> (nothing posted) or <<month, year>>
MultiValueField_clean(value, req, ctor) ==
    IF value = <<>> \/ (IsEmptyValue(value[1]) /\ IsEmptyValue(value[2]))
    THEN IF req THEN Raise("ValidationError", "required") ELSE compress(<<>>)
    ELSE IF req /\ (IsEmptyValue(value[1]) \/ IsEmptyValue(value[2]))
    THEN Raise("ValidationError", "required")
    ELSE LET m == ChoiceField_clean(value[1], MonthChoices)
             y == ChoiceField_clean(value[2], YearChoices(ctor))
         IN  IF m.kind = "raise" THEN m
             ELSE IF y.kind = "raise" THEN y
             ELSE compress(<<m.value, y.value>>)

\* clean comparing with the date read at construction
ExpiryDateField_clean_ctordate(value, req, ctor, now) ==
    LET expiry_date == MultiValueField_clean(value, req, ctor)
    IN  IF expiry_date.kind = "raise" THEN expiry_date
        ELSE IF expiry_date.value.none THEN Raise("TypeError", "")
        ELSE IF DateGT(ctor, expiry_date.value) THEN Raise("ValidationError", "date_passed")
        ELSE expiry_date

\* ExpiryDateField.clean(value): date.today() > None is a TypeError
ExpiryDateField_clean(value, req, ctor, now) ==
    LET expiry_date == MultiValueField_clean(value, req, ctor)
    IN  IF expiry_date.kind = "raise" THEN expiry_date
        ELSE IF expiry_date.value.none THEN Raise("TypeError", "")
        ELSE IF DateGT(now, expiry_date.value) THEN Raise("ValidationError", "date_passed")
        ELSE expiry_date

MaxTicks == 4
StartDates == { Date(2024, 2, 27), Date(2023, 2, 26), Date(2024, 12, 29), Date(2024, 6, 28) }

PostedMonths ==
    { Str(Decimal(n)) : n \in 0..MaxMonthInput } \cup { None, Str(<<>>), Str(<<"0", "2">>), Str(<<"a">>) }
PostedYears(ctor) ==
    { Str(Decimal(n)) : n \in (ctor.year - 1)..(ctor.year + 2) }
    \cup { Str(Decimal(ctor.year + 14)), Str(Decimal(ctor.year + 15)), None, Str(<<>>), Str(<<"a">>) }
ExpiryInputs(ctor) == {<<>>} \cup (PostedMonths \X PostedYears(ctor))

InitExpiry ==
    /\ pc = "start"
    /\ op = "ExpiryDateField.clean"
    /\ required \in BOOLEAN
    /\ arg = <<>>
    /\ ret = NoCall
    /\ prev = NoCall
    /\ ctorToday \in StartDates
    /\ today = ctorToday
    /\ ticks = 0

\* a day passes between the field's construction and the call
Tick ==
    /\ pc = "start"
    /\ op = "ExpiryDateField.clean"
    /\ ticks < MaxTicks
    /\ today' = NextDay(today)
    /\ ticks' = ticks + 1
    /\ UNCHANGED <<pc, op, required, arg, ret, prev, ctorToday>>

\* ExpiryDateField(required=...).clean(value)
ExpiryClean ==
    /\ pc = "start"
    /\ op = "ExpiryDateField.clean"
    /\ \E value \in ExpiryInputs(ctorToday) :
        /\ arg' = value
        /\ ret' = ExpiryDateField_clean(value, required, ctorToday, today)
    /\ pc' = "done"
    /\ UNCHANGED <<op, required, prev, ctorToday, today, ticks>>

NextExpiry == Tick \/ ExpiryClean

SpecExpiry == InitExpiry /\ [][NextExpiry]_vars

----------------------------------------------------------------------------
(* The statements checked against the model *)

\* the input with every space and hyphen removed
StripSeparators(s) == SelectSeq(s, LAMBDA c : c \notin {" ", "-"})
\* the input with every space removed
StripSpaces(s) == SelectSeq(s, LAMBDA c : c # " ")
AllDecimal(s) == \A i \in 1..Len(s) : s[i] \in AsciiDigitSet
HasPrefix(s, p) == Len(s) >= Len(p) /\ \A i \in 1..Len(p) : s[i] = p[i]

\* the six issuer patterns as the specification lists them
IssuerPattern(s) ==
    /\ AllDecimal(s)
    /\ \/ HasPrefix(s, <<"4">>) /\ Len(s) \in {13, 16}
       \/ \E d \in {"1", "2", "3", "4", "5"} : HasPrefix(s, <<"5", d>>) /\ Len(s) = 16
       \/ (HasPrefix(s, <<"6", "0", "1", "1">>) \/ HasPrefix(s, <<"6", "5">>)) /\ Len(s) = 16
       \/ (HasPrefix(s, <<"3", "4">>) \/ HasPrefix(s, <<"3", "7">>)) /\ Len(s) = 15
       \/ /\ Len(s) = 14
          /\ \/ \E d \in {"0", "1", "2", "3", "4", "5"} : HasPrefix(s, <<"3", "0", d>>)
             \/ HasPrefix(s, <<"3", "6">>)
             \/ HasPrefix(s, <<"3", "8">>)
       \/ (HasPrefix(s, <<"2", "1", "3", "1">>) \/ HasPrefix(s, <<"1", "8", "0", "0">>)) /\ Len(s) = 15
       \/ HasPrefix(s, <<"3", "5">>) /\ Len(s) = 16

RECURSIVE LuhnReferenceSum(_, _)
\* the reference Luhn sum of the digits at positions p, p+1, ... counted from the right (0-based)
LuhnReferenceSum(s, p) ==
    IF p >= Len(s) THEN 0
    ELSE LET d == DigitValue(s[Len(s) - p])
             x == IF p % 2 = 0 THEN d ELSE IF 2 * d >= 10 THEN 2 * d - 9 ELSE 2 * d
         IN  x + LuhnReferenceSum(s, p + 1)
LuhnReferenceValid(s) == LuhnReferenceSum(s, 0) % 10 = 0

CardDone == pc = "done" /\ op = "CreditCardField.clean"
CvvDone == pc = "done" /\ op = "VerificationValueField.clean"

\* C1: a number that matches one of the six issuer patterns after normalization and passes
\* the Luhn checksum is accepted, and clean returns it with spaces and hyphens stripped.
C1_ValidNumberAccepted ==
    (CardDone /\ ~arg.none) =>
        LET n == StripSeparators(arg.s)
        IN  (IssuerPattern(n) /\ LuhnReferenceValid(n)) => ret = Ok(Str(n))

\* C2: a non-empty normalized number that matches no issuer pattern or fails the Luhn
\* checksum is rejected with the ValidationError built from the 'invalid' message.
C2_InvalidNumberRejected ==
    (CardDone /\ ~arg.none) =>
        LET n == StripSeparators(arg.s)
        IN  (n # <<>> /\ ~(IssuerPattern(n) /\ LuhnReferenceValid(n)))
                => ret = Raise("ValidationError", "invalid")

\* C3: on a required field, an absent input or one that is empty after normalization fails
\* with the ValidationError built from the 'required' message, for both character fields.
C3_RequiredEmptyRejected ==
    ((CardDone \/ CvvDone) /\ required) =>
        LET empty == \/ arg.none
                     \/ CardDone /\ StripSeparators(arg.s) = <<>>
                     \/ CvvDone /\ StripSpaces(arg.s) = <<>>
        IN  empty => ret = Raise("ValidationError", "required")

\* C4: a non-empty verification code is accepted, and returned without its spaces, exactly
\* when it is 3 or 4 decimal digits after the spaces are removed; any other non-empty
\* normalized input fails with the ValidationError built from the 'invalid' message.
C4_VerificationCodeAcceptedIff ==
    (CvvDone /\ ~arg.none) =>
        LET n == StripSpaces(arg.s)
        IN  n # <<>> =>
                IF Len(n) \in {3, 4} /\ AllDecimal(n) THEN ret = Ok(Str(n))
                ELSE ret = Raise("ValidationError", "invalid")

\* a is strictly before b in the calendar
DateBefore(a, b) ==
    a.year * 10000 + a.month * 100 + a.day < b.year * 10000 + b.month * 100 + b.day

ExpiryDone == pc = "done" /\ op = "ExpiryDateField.clean"

\* C5: clean compares the candidate date with the date at the time of the call: a candidate
\* strictly before today fails with date_passed, any other candidate (today included) is returned.
C5_ComparedWithTodayAtCall ==
    ExpiryDone =>
        LET cand == MultiValueField_clean(arg, required, ctorToday)
        IN  (cand.kind = "ok" /\ ~cand.value.none) =>
                IF DateBefore(cand.value, today)
                THEN ret = Raise("ValidationError", "date_passed")
                ELSE ret = Ok(cand.value)

\* C5 witness: days after construction, the candidate is today itself and is returned
C5_Witness ==
    ExpiryDone /\ ticks > 0 /\ ret.kind = "ok" /\ ret.value = today

\* C6: with no expiry input at all on a field that is not required, clean ends without an
\* error and its result is None.
C6_NoInputGivesNone ==
    (ExpiryDone /\ ~required /\ (arg = <<>> \/ (IsEmptyValue(arg[1]) /\ IsEmptyValue(arg[2]))))
        => ret = Ok(None)

CompressDone == pc = "done" /\ op = "ExpiryDateField.compress"

\* C7: a non-empty (month, year) that yields no date fails with a ValidationError:
\* invalid_month if the month is no integer, else invalid_year if the year is no integer,
\* else invalid_month if the month is outside 1..12, else invalid_year if the year is
\* outside the years a date can hold; nothing else leaves compress.
C7_CompressFailureKinds ==
    (CompressDone /\ arg # <<>> /\ ~(ret.kind = "ok" /\ ~ret.value.none)) =>
        LET m == int(arg[1])
            y == int(arg[2])
        IN  ret = Raise("ValidationError",
                        IF m.exc # "" THEN "invalid_month"
                        ELSE IF y.exc # "" THEN "invalid_year"
                        ELSE IF m.n < 1 \/ m.n > 12 THEN "invalid_month"
                        ELSE "invalid_year")

\* C8: when clean succeeds on an input with result v, clean on v succeeds and returns v.
C8_CleanIdempotent ==
    (pc = "redone" /\ op = "CreditCardField.clean") => (prev.kind = "ok" /\ ret = prev)

\* C8 witness: a number written with separators was accepted and its result cleaned again
C8_Witness ==
    /\ pc = "redone"
    /\ op = "CreditCardField.clean"
    /\ Truthy(prev.value)
    /\ arg.s # prev.value.s
    /\ ret.kind = "ok"

\* C9: on a non-empty string of decimal digits is_luhn_valid is true exactly when the
\* reference Luhn sum (every second digit from the right doubled and reduced) is divisible by 10.
C9_LuhnMatchesReference ==
    (pc = "done" /\ op = "is_luhn_valid") =>
        (ret.kind = "ok" /\ (ret.value <=> (LuhnReferenceSum(arg.s, 0) % 10 = 0)))

\* C9 witness: an odd-length string whose doubled digit exceeds 9 is found valid
C9_Witness ==
    /\ pc = "done"
    /\ op = "is_luhn_valid"
    /\ Len(arg.s) = 3
    /\ DigitValue(arg.s[2]) >= 5
    /\ ret = Ok(TRUE)

\* the last day of the month under the Gregorian rules
GregorianLastDay(y, m) ==
    IF m \in {1, 3, 5, 7, 8, 10, 12} THEN 31
    ELSE IF m \in {4, 6, 9, 11} THEN 30
    ELSE IF (y % 4 = 0 /\ y % 100 # 0) \/ y % 400 = 0 THEN 29
    ELSE 28

\* C10: for a month string that parses to 1..12 and a year string that parses to a year a
\* date can hold, compress returns the date (year, month, last day of that month).
C10_CompressLastDay ==
    (CompressDone /\ arg # <<>>) =>
        LET m == int(arg[1])
            y == int(arg[2])
        IN  (m.exc = "" /\ m.n \in 1..12 /\ y.exc = "" /\ y.n \in 1..9999)
                => ret = Ok(Date(y.n, m.n, GregorianLastDay(y.n, m.n)))

\* C10 witness: month "02" of leap year 2024 gives the 29th
C10_Witness ==
    /\ CompressDone
    /\ arg = <<Str(<<"0", "2">>), Str(<<"2", "0", "2", "4">>)>>
    /\ ret = Ok(Date(2024, 2, 29))

============================================================================
